---- MODULE Spec2Model ----
(***************************************************************************)
(* Model of poroelastic/problem.py: class PoroelasticProblem.              *)
(*                                                                         *)
(* Field values (dolfin Functions) are abstracted to small integers.  The  *)
(* pressure and tolerance grid is in units of 1/Scale, so the literal      *)
(* eps = 1 of solve() is the integer Scale.  Time is an integer number of  *)
(* ticks (exact arithmetic).  The convergence metric is the L2 norm of a   *)
(* difference on a domain of unit measure.                                 *)
(*                                                                         *)
(* Five specifications share the state:                                    *)
(*   SpecForms  __init__ and the start of solve()                          *)
(*   SpecSetup  SpecForms with add_solid_neumann_conditions                *)
(*   SpecBC     add_*_dirichlet_condition and the time loop of solve()     *)
(*   SpecRun    the time loop of solve(): one timestep with any tolerance, *)
(*              or several timesteps with a tolerance met at once          *)
(*   Spec       the time loop of solve(): several timesteps, any tolerance *)
(***************************************************************************)
EXTENDS Integers, Sequences, FiniteSets, TLC

\* ---- bounds of the model -------------------------------------------------
Scale == 3      \* grid resolution: the real number 1.0 is Scale grid units
PMax == 2       \* pressures range over 0..PMax grid units
FieldMax == 1   \* mass / displacement fields range over 0..FieldMax
MaxTf == 3      \* final time tf ranges over 0..MaxTf ticks
MaxDt == 2      \* timestep dt ranges over 1..MaxDt ticks
MaxNSolve == 1  \* compartment counts 1..MaxNSolve in the time-stepping runs
MaxNBC == 1     \* compartment counts 1..MaxNBC in the runs with boundary conditions
MaxN == 3       \* compartment counts 1..MaxN at construction
BetaMax == 1    \* exchange coefficients range over 0..BetaMax
JMax == 2       \* volume ratios J range over 1..JMax
MaxConds == 2   \* condition objects 1..MaxConds
MaxBnd == 2     \* boundary markers 1..MaxBnd
MaxPairs == 2   \* longest list passed to add_solid_neumann_conditions
MaxCalls == 2   \* calls of add_solid_neumann_conditions
MaxRegs == 2    \* calls of the add_*_dirichlet_condition methods

\* ---- program constants ---------------------------------------------------
maxiter == 100

FieldVals == 0..FieldMax
PVals == 0..PMax
TolVals == 0..Scale
BetaVals == 0..BetaMax
JVals == 1..JMax
CondIds == 1..MaxConds
Boundaries == 1..MaxBnd
\* value of a condition's attribute t before solve() has written it
NoTime == 0 - 1

SeqsUpTo(S, n) == UNION {[1..k -> S] : k \in 0..n}

VARIABLES
  pc,           \* position of the caller / of the generator frame of solve()
  N, betaParam, tf, dt, tol,                    \* self.N and self.params['Parameter']
  t, iter, eps, mf_,                            \* locals of solve()
  p, mf, mf_n, Us, Us_n, Uf,                    \* solution functions
  meshMoves,                                    \* number of ALE.move calls on self.mesh
  sbcs, fbcs, pbcs, tconditions,                \* boundary-condition lists
  con_t,                                        \* the attribute t of every condition object
  SForm, dSForm, MForm, dMForm,                 \* variational forms
  sprob, mprob,                                 \* problems handed to the solvers
  yielded,      \* the tuple handed to the caller while the generator is suspended
  emitted,      \* history: times of all yielded elements
  firstHit,     \* history: first inner iteration of this timestep with eps <= tol (0: none)
  lastOut,      \* history: the fields <<mf, Us>> of the latest yielded element (initial fields before)
  lastNonConv,  \* history: fields of the latest element yielded with eps > tol
  failed,       \* history: a solve has raised
  allPairs,     \* history: every (condition, boundary) pair passed to add_solid_neumann_conditions
  neumannCalls  \* history: number of add_solid_neumann_conditions calls

params == <<N, betaParam, tf, dt, tol>>
locals == <<t, iter, eps, mf_>>
fields == <<p, mf, mf_n, Us, Us_n, Uf>>
bcs == <<sbcs, fbcs, pbcs, tconditions>>
forms == <<SForm, dSForm, MForm, dMForm>>
probs == <<sprob, mprob>>
hist == <<emitted, firstHit, lastOut, lastNonConv, failed, allPairs, neumannCalls>>

vars == <<pc, params, locals, fields, meshMoves, bcs, con_t, forms, probs, yielded, hist>>

Abs(x) == IF x < 0 THEN -x ELSE x

\* zip(conditions, boundaries): stops at the shorter argument
Zip(a, b) ==
  LET n == IF Len(a) < Len(b) THEN Len(a) ELSE Len(b)
  IN [k \in 1..n |-> <<a[k], b[k]>>]

InSeq(x, s) == \E k \in DOMAIN s : s[k] = x

Count(x, s) == Cardinality({k \in DOMAIN s : s[k] = x})

\* ---- parameter accessors -------------------------------------------------
\* beta(): a float parameter becomes a one-element list
Beta(bp) == IF bp.isFloat THEN <<bp.val>> ELSE bp.val

BetaParams == [isFloat : {TRUE}, val : BetaVals]
                \cup [isFloat : {FALSE}, val : SeqsUpTo(BetaVals, MaxN)]

\* ---- variational forms ---------------------------------------------------
\* set_solid_variational_form(neumann_bcs): Psi*dx + L*(J-1-m/rho)*dx plus one
\* traction term dot(condition*n, dU)*ds(boundary) per pair of neumann_bcs
SolidForm(neumann_bcs) ==
  [energy |-> "Psi*dx + L*(J-1-m/rho)*dx", tractions |-> neumann_bcs]

Derivative(form) == [of |-> form]

\* slip: the second integrand repeats the orientation of the first
ExchangeAtomsSlip(i) ==
  << [coef |-> i, plus |-> i, minus |-> i + 1, test |-> i],
     [coef |-> i, plus |-> i, minus |-> i + 1, test |-> i + 1] >>

\* the two integrands added for beta[i] (1-based i), each
\*   -J * beta[coef] * (p[plus] - p[minus]) * vm[test]
ExchangeAtoms(i) ==
  << [coef |-> i, plus |-> i,     minus |-> i + 1, test |-> i],
     [coef |-> i, plus |-> i + 1, minus |-> i,     test |-> i + 1] >>

RECURSIVE ExchangeTerms(_)
ExchangeTerms(k) == IF k = 0 THEN <<>> ELSE ExchangeTerms(k - 1) \o ExchangeAtoms(k)

\* set_fluid_variational_form(): p and vm have n entries, so p[i+1] raises
\* IndexError as soon as the loop over range(len(beta)) reaches i+1 = n.
\* The branch N == 1 never looks at beta.
FluidFormRaises(n, beta) == n > 1 /\ Len(beta) > n - 1

FluidForm(n, beta) ==
  IF n = 1
  THEN [exchange |-> <<>>, inflow |-> 1, outflow |-> 1]
  ELSE [exchange |-> ExchangeTerms(Len(beta)), inflow |-> 1, outflow |-> n]

\* value of one exchange integrand at a point
AtomValue(a, J, beta, pv) == (0 - J) * beta[a.coef] * (pv[a.plus] - pv[a.minus])

RECURSIVE SumAtoms(_, _, _, _)
SumAtoms(atoms, J, beta, pv) ==
  IF atoms = <<>> THEN 0
  ELSE AtomValue(Head(atoms), J, beta, pv) + SumAtoms(Tail(atoms), J, beta, pv)

\* exchange contribution to the equation of compartment c (coefficient of vm[c])
ExchangeInto(c, form, J, beta, pv) ==
  SumAtoms(SelectSeq(form.exchange, LAMBDA a : a.test = c), J, beta, pv)

\* ---- solve() helpers -----------------------------------------------------
\* eps = np.sqrt(assemble(e**2*dx)) with e = p[0] - mf_
L2Norm(a, b) == Abs(a - b)

\* slip: the outer loop also runs at t = tf
OuterGuardInclusive(tt, tff) == tt <= tff

\* while t < self.params['Parameter']['tf']
OuterGuard(tt, tff) == tt < tff

\* slip: eps equal to tol does not count as converged
InnerGuardWeak(e, tl, it) == e >= tl /\ it < maxiter

\* while eps > tol and iter < maxiter
InnerGuard(e, tl, it) == e > tl /\ it < maxiter

\* slip: the exception is swallowed and the frame carries on where it was
PropagateRetry(pcNow) == pcNow

\* nothing in the class catches an exception: the frame that raised is left
Propagate(pcNow) == "aborted"

\* the fields of a yielded tuple (mf, Uf, p, Us, t) other than the time
Content(y) == <<y[1], y[2], y[3], y[4]>>

\* calculate_flow_vector(): Uf[i] is solved from the solid state and p[i]
FlowVector(us, pp) == [i \in 1..Len(pp) |-> <<us, pp[i]>>]

\* slip: every condition object is advanced, time-varying or not
AdvanceAll(ct, tcs, tt) == [c \in DOMAIN ct |-> tt]

\* for con in self.tconditions: con.t = t
AdvanceConditions(ct, tcs, tt) ==
  [c \in DOMAIN ct |-> IF InSeq(c, tcs) THEN tt ELSE ct[c]]

\* ---- initial states ------------------------------------------------------
NoObject ==
  /\ t = 0 /\ iter = 0 /\ eps = 0 /\ mf_ = 0
  /\ p = <<>> /\ mf = 0 /\ mf_n = 0 /\ Us = 0 /\ Us_n = 0 /\ Uf = <<>>
  /\ meshMoves = 0
  /\ sbcs = <<>> /\ fbcs = <<>> /\ pbcs = <<>> /\ tconditions = <<>>
  /\ con_t = [c \in CondIds |-> NoTime]
  /\ SForm = <<>> /\ dSForm = <<>> /\ MForm = <<>> /\ dMForm = <<>>
  /\ sprob = <<>> /\ mprob = <<>>
  /\ yielded = <<>>
  /\ emitted = <<>> /\ firstHit = 0 /\ lastOut = <<0, 0>> /\ lastNonConv = <<>>
  /\ failed = FALSE
  /\ allPairs = <<>> /\ neumannCalls = 0

\* the state __init__ leaves behind
Constructed ==
  /\ t = 0 /\ iter = 0 /\ eps = 0 /\ mf_ = 0
  /\ p = [i \in 1..N |-> 0] /\ mf = 0 /\ mf_n = 0 /\ Us = 0 /\ Us_n = 0
  /\ Uf = [i \in 1..N |-> <<0, 0>>]
  /\ meshMoves = 0
  /\ sbcs = <<>> /\ fbcs = <<>> /\ pbcs = <<>> /\ tconditions = <<>>
  /\ con_t = [c \in CondIds |-> NoTime]
  /\ SForm = SolidForm(<<>>) /\ dSForm = Derivative(SForm)
  /\ MForm = FluidForm(N, Beta(betaParam)) /\ dMForm = Derivative(MForm)
  /\ sprob = <<>> /\ mprob = <<>>
  /\ yielded = <<>>
  /\ emitted = <<>> /\ firstHit = 0 /\ lastOut = <<0, 0>> /\ lastNonConv = <<>>
  /\ failed = FALSE
  /\ allPairs = <<>> /\ neumannCalls = 0

\* before PoroelasticProblem(mesh, params) is called
InitSetup ==
  /\ pc = "new"
  /\ N \in 1..MaxN
  /\ betaParam \in BetaParams
  /\ tf \in {1} /\ dt \in {1} /\ tol \in {0}
  /\ NoObject

\* a constructed problem about to be time-stepped
Init ==
  /\ pc = "ready"
  /\ N \in 1..MaxNSolve
  /\ betaParam \in [isFloat : {FALSE}, val : [1..(N - 1) -> BetaVals]]
  /\ tf \in 0..MaxTf
  /\ dt \in 1..MaxDt
  /\ tol \in TolVals
  /\ Constructed

\* a constructed problem about to be time-stepped: either one timestep with any
\* tolerance, or several timesteps with the two loosest tolerances (the inner
\* loop then runs once or not at all)
InitRun ==
  /\ pc = "ready"
  /\ N \in 1..MaxNSolve
  /\ betaParam = [isFloat |-> FALSE, val |-> [i \in 1..(N - 1) |-> 1]]
  /\ \/ tf = 1 /\ dt = 1 /\ tol \in TolVals
     \/ tf \in 0..MaxTf /\ dt \in 1..MaxDt /\ tol \in {Scale - 1, Scale}
  /\ Constructed

\* a constructed problem whose boundary conditions are still to be registered:
\* either one timestep with the tightest tolerance, or several timesteps with
\* the two loosest ones
InitBC ==
  /\ pc = "ready"
  /\ N \in 1..MaxNBC
  /\ betaParam = [isFloat |-> FALSE, val |-> [i \in 1..(N - 1) |-> 1]]
  /\ dt = 1
  /\ tf \in 1..MaxTf
  /\ tol \in {Scale - 1, Scale}
  /\ Constructed

\* ---- __init__ ------------------------------------------------------------
\* PoroelasticProblem(mesh, params): creates the functions, then both forms
Construct ==
  /\ pc = "new"
  /\ ~FluidFormRaises(N, Beta(betaParam))
  /\ p' = [i \in 1..N |-> 0]
  /\ Uf' = [i \in 1..N |-> <<0, 0>>]
  /\ SForm' = SolidForm(<<>>) /\ dSForm' = Derivative(SForm')
  /\ MForm' = FluidForm(N, Beta(betaParam)) /\ dMForm' = Derivative(MForm')
  /\ pc' = "ready"
  /\ UNCHANGED <<params, locals, mf, mf_n, Us, Us_n, meshMoves, bcs, con_t,
                 probs, yielded, hist>>

\* the IndexError of set_fluid_variational_form leaves __init__: no object
ConstructRaises ==
  /\ pc = "new"
  /\ FluidFormRaises(N, Beta(betaParam))
  /\ pc' = Propagate("new")
  /\ UNCHANGED <<params, locals, fields, meshMoves, bcs, con_t, forms, probs,
                 yielded, hist>>

\* ---- boundary conditions -------------------------------------------------
CallerHasControl == pc \in {"ready", "yielded"}

Registrations == Len(sbcs) + Len(fbcs) + Len(pbcs)

\* the tconditions list after a registration with keyword time
Register(tcs, condition, time) == IF time THEN Append(tcs, condition) ELSE tcs

add_solid_dirichlet_condition ==
  /\ CallerHasControl /\ Registrations < MaxRegs
  /\ \E condition \in CondIds, time \in BOOLEAN :
       /\ sbcs' = Append(sbcs, [space |-> "FS_S.sub(0)", value |-> condition])
       /\ tconditions' = Register(tconditions, condition, time)
  /\ UNCHANGED <<pc, params, locals, fields, meshMoves, fbcs, pbcs, con_t, forms,
                 probs, yielded, hist>>

add_fluid_dirichlet_condition ==
  /\ CallerHasControl /\ Registrations < MaxRegs
  /\ \E condition \in CondIds, time \in BOOLEAN, source \in BOOLEAN :
       LET sub == IF source THEN 0 ELSE N - 1
       IN /\ tconditions' = Register(tconditions, condition, time)
          /\ fbcs' = Append(fbcs, IF N = 1
                                  THEN [space |-> "FS_M", value |-> condition]
                                  ELSE [space |-> <<"FS_M.sub", sub>>, value |-> condition])
  /\ UNCHANGED <<pc, params, locals, fields, meshMoves, sbcs, pbcs, con_t, forms,
                 probs, yielded, hist>>

add_pressure_dirichlet_condition ==
  /\ CallerHasControl /\ Registrations < MaxRegs
  /\ \E condition \in CondIds, time \in BOOLEAN :
       /\ tconditions' = Register(tconditions, condition, time)
       /\ pbcs' = Append(pbcs, [space |-> "FS_F", value |-> condition])
  /\ UNCHANGED <<pc, params, locals, fields, meshMoves, sbcs, fbcs, con_t, forms,
                 probs, yielded, hist>>

\* add_solid_neumann_conditions(conditions, boundaries)
add_solid_neumann_conditions ==
  /\ pc = "ready" /\ neumannCalls < MaxCalls
  /\ \E conditions \in SeqsUpTo(CondIds, MaxPairs), boundaries \in SeqsUpTo(Boundaries, MaxPairs) :
       /\ SForm' = SolidForm(Zip(conditions, boundaries))
       /\ dSForm' = Derivative(SForm')
       /\ allPairs' = allPairs \o Zip(conditions, boundaries)
  /\ neumannCalls' = neumannCalls + 1
  /\ UNCHANGED <<pc, params, locals, fields, meshMoves, bcs, con_t, MForm, dMForm,
                 probs, yielded, emitted, firstHit, lastOut, lastNonConv, failed>>

\* ---- solve() -------------------------------------------------------------
\* first next(): lines up to the head of the outer loop
SolveBegin ==
  /\ pc = "ready"
  /\ t' = 0
  /\ mprob' = [F |-> MForm, u |-> "mf", bcs |-> fbcs, J |-> dMForm]
  /\ sprob' = [F |-> SForm, u |-> "Us", bcs |-> sbcs, J |-> dSForm]
  /\ pc' = "outer"
  /\ UNCHANGED <<params, iter, eps, mf_, fields, meshMoves, bcs, con_t, forms,
                 yielded, hist>>

\* outer loop entered: conditions advanced, inner loop initialised
OuterStep ==
  /\ pc = "outer" /\ OuterGuard(t, tf)
  /\ con_t' = AdvanceConditions(con_t, tconditions, t)
  /\ iter' = 0 /\ eps' = Scale /\ mf_' = 0
  /\ firstHit' = 0
  /\ pc' = "inner"
  /\ UNCHANGED <<params, t, fields, meshMoves, bcs, forms, probs, yielded,
                 emitted, lastOut, lastNonConv, failed, allPairs, neumannCalls>>

\* outer loop left: print(), the generator is exhausted
OuterDone ==
  /\ pc = "outer" /\ ~OuterGuard(t, tf)
  /\ pc' = "done"
  /\ UNCHANGED <<params, locals, fields, meshMoves, bcs, con_t, forms, probs,
                 yielded, hist>>

\* inner loop entered: mf_.assign(self.p[0]); ssol.solve()
SolidSolve ==
  /\ pc = "inner" /\ InnerGuard(eps, tol, iter)
  /\ mf_' = p[1]
  /\ \E u \in FieldVals : Us' = u
  /\ pc' = "coupling"
  /\ UNCHANGED <<params, t, iter, eps, p, mf, mf_n, Us_n, Uf, meshMoves, bcs, con_t,
                 forms, probs, yielded, hist>>

\* ssol.solve() raises; Newton has left its last iterate in Us
SolidSolveRaises ==
  /\ pc = "inner" /\ InnerGuard(eps, tol, iter)
  /\ mf_' = p[1]
  /\ \E u \in FieldVals : Us' = u
  /\ failed' = TRUE
  /\ pc' = Propagate("inner")
  /\ UNCHANGED <<params, t, iter, eps, p, mf, mf_n, Us_n, Uf, meshMoves, bcs, con_t,
                 forms, probs, yielded, emitted, firstHit, lastOut, lastNonConv, allPairs,
                 neumannCalls>>

\* self.fluid_solid_coupling(): every p[i] is recomputed
fluid_solid_coupling ==
  /\ pc = "coupling"
  /\ \E pp \in [1..N -> PVals] : p' = pp
  /\ pc' = "fluid"
  /\ UNCHANGED <<params, locals, mf, mf_n, Us, Us_n, Uf, meshMoves, bcs, con_t,
                 forms, probs, yielded, hist>>

\* slip: the previous-step fields are stored inside the inner iteration
FluidSolveCommits ==
  /\ pc = "fluid"
  /\ \E m \in FieldVals : mf' = m /\ mf_n' = m
  /\ Us_n' = Us
  /\ eps' = L2Norm(p[1], mf_)
  /\ iter' = iter + 1
  /\ firstHit' = IF firstHit = 0 /\ eps' <= tol THEN iter' ELSE firstHit
  /\ pc' = "inner"
  /\ UNCHANGED <<params, t, mf_, p, Us, Uf, meshMoves, bcs, con_t,
                 forms, probs, yielded, emitted, lastOut, lastNonConv, failed, allPairs,
                 neumannCalls>>

\* msol.solve(); eps = norm(p[0] - mf_); iter += 1
FluidSolve ==
  /\ pc = "fluid"
  /\ \E m \in FieldVals : mf' = m
  /\ eps' = L2Norm(p[1], mf_)
  /\ iter' = iter + 1
  /\ firstHit' = IF firstHit = 0 /\ eps' <= tol THEN iter' ELSE firstHit
  /\ pc' = "inner"
  /\ UNCHANGED <<params, t, mf_, p, mf_n, Us, Us_n, Uf, meshMoves, bcs, con_t,
                 forms, probs, yielded, emitted, lastOut, lastNonConv, failed, allPairs,
                 neumannCalls>>

\* msol.solve() raises; Newton has left its last iterate in mf
FluidSolveRaises ==
  /\ pc = "fluid"
  /\ \E m \in FieldVals : mf' = m
  /\ failed' = TRUE
  /\ pc' = Propagate("fluid")
  /\ UNCHANGED <<params, locals, p, mf_n, Us, Us_n, Uf, meshMoves, bcs, con_t,
                 forms, probs, yielded, emitted, firstHit, lastOut, lastNonConv, allPairs,
                 neumannCalls>>

\* inner loop left: store previous, calculate_flow_vector(), yield
CommitYield ==
  /\ pc = "inner" /\ ~InnerGuard(eps, tol, iter)
  /\ mf_n' = mf
  /\ Us_n' = Us
  /\ Uf' = FlowVector(Us, p)
  /\ yielded' = <<mf, Uf', p, Us, t>>
  /\ emitted' = Append(emitted, t)
  /\ lastOut' = <<mf, Us>>
  /\ lastNonConv' = IF eps > tol THEN Content(yielded') ELSE lastNonConv
  /\ pc' = "yielded"
  /\ UNCHANGED <<params, locals, p, mf, Us, meshMoves, bcs, con_t, forms, probs,
                 firstHit, failed, allPairs, neumannCalls>>

\* next(): self.move_mesh(); t += dt
Resume ==
  /\ pc = "yielded"
  /\ meshMoves' = meshMoves + 1
  /\ t' = t + dt
  /\ yielded' = <<>>
  /\ pc' = "outer"
  /\ UNCHANGED <<params, iter, eps, mf_, fields, bcs, con_t, forms, probs, hist>>

TimeLoop ==
  \/ OuterStep \/ OuterDone
  \/ SolidSolve \/ SolidSolveRaises
  \/ fluid_solid_coupling
  \/ FluidSolve \/ FluidSolveRaises
  \/ CommitYield \/ Resume

Next == SolveBegin \/ TimeLoop

NextBC ==
  \/ add_solid_dirichlet_condition
  \/ add_fluid_dirichlet_condition
  \/ add_pressure_dirichlet_condition
  \/ SolveBegin \/ TimeLoop

NextSetup == Construct \/ ConstructRaises \/ add_solid_neumann_conditions \/ SolveBegin

NextForms == Construct \/ ConstructRaises \/ SolveBegin

Spec == Init /\ [][Next]_vars

SpecBC == InitBC /\ [][NextBC]_vars

SpecSetup == InitSetup /\ [][NextSetup]_vars

SpecRun == InitRun /\ [][Next]_vars

SpecForms == InitSetup /\ [][NextForms]_vars

\* ---- properties ------------------------------------------------------------
InInnerLoop == pc \in {"inner", "coupling", "fluid"}

\* C1: when tf is an exact multiple n of dt, solve() never emits more than n
\* elements, the i-th emitted time is (i-1)*dt, and an exhausted generator has
\* emitted exactly n elements.
C1_EmissionTimes ==
  (tf % dt = 0) =>
    /\ Len(emitted) <= tf \div dt
    /\ \A i \in DOMAIN emitted : emitted[i] = (i - 1) * dt
    /\ (pc = "done" => Len(emitted) = tf \div dt)

C1_Witness == pc = "done" /\ dt = 1 /\ tf = 3 * dt /\ emitted = <<0, dt, 2 * dt>>

\* C2: for 0 <= TOL < 1 the inner loop is left after exactly k iterations, k the
\* first iteration whose eps is <= TOL, or after maxiter iterations when there is
\* none; while an iteration is under way no earlier iteration had eps <= TOL.
C2_InnerLoopExit ==
  (0 <= tol /\ tol < Scale) =>
    /\ (pc = "yielded" => iter = (IF firstHit # 0 THEN firstHit ELSE maxiter))
    /\ (pc \in {"coupling", "fluid"} => firstHit = 0 /\ iter < maxiter)

C2_Witness == pc = "yielded" /\ tol = 1 /\ eps = tol /\ iter = 3 /\ firstHit = 3

\* C3: an element yielded after the inner loop hit maxiter without eps <= TOL can
\* be told from the element of a converged timestep: no element yielded with
\* eps <= TOL carries the same fields as an element yielded earlier with
\* eps > TOL (the time stamp only names the timestep).
C3_NonConvergenceReported ==
  (pc = "yielded" /\ eps <= tol) => Content(yielded) # lastNonConv

\* C4: once a solid or fluid solve has raised, the generator frame is gone:
\* no solve, pressure recompute, store of previous fields, yield or mesh move
\* happens any more, and the raising step itself stores no previous field,
\* yields nothing and moves no mesh.
C4_FailureAborts ==
  /\ [](failed => pc = "aborted")
  /\ [][ /\ (failed => UNCHANGED <<pc, t, iter, p, mf, Us, mf_n, Us_n, Uf,
                                    yielded, emitted, meshMoves>>)
         /\ (failed' => UNCHANGED <<p, mf_n, Us_n, Uf, yielded, emitted, meshMoves>>)
     ]_vars

C4_Witness == failed /\ pc = "aborted" /\ Len(emitted) = 1 /\ t = dt /\ tf > t

\* C5: a problem that exists (construction did not raise) has exactly N-1
\* exchange coefficients.
C5_MismatchDetected ==
  (pc \in {"ready", "outer"}) => Len(Beta(betaParam)) = N - 1

\* sum of the exchange integrands of coefficient i that multiply vm[c]
PairInto(i, c, J, beta, pv) ==
  SumAtoms(SelectSeq(MForm.exchange, LAMBDA a : a.coef = i /\ a.test = c), J, beta, pv)

\* C6: for N > 1 every exchange integrand of coefficient i involves only the
\* compartments i and i+1; for all J and pressures the part entering equation i
\* is the negative of the part entering equation i+1, and with all test
\* functions equal the exchange integrands sum to zero.
C6_ExchangeConserves ==
  (pc \in {"ready", "outer"} /\ N > 1) =>
    LET beta == Beta(betaParam)
    IN /\ \A k \in DOMAIN MForm.exchange :
            LET a == MForm.exchange[k]
            IN /\ a.test \in {a.coef, a.coef + 1}
               /\ {a.plus, a.minus} = {a.coef, a.coef + 1}
       /\ \A J \in JVals, pv \in [1..N -> PVals] :
            /\ \A i \in DOMAIN beta :
                 PairInto(i, i, J, beta, pv) = 0 - PairInto(i, i + 1, J, beta, pv)
            /\ SumAtoms(MForm.exchange, J, beta, pv) = 0

C6_Witness ==
  /\ pc = "ready" /\ N = 3 /\ Len(Beta(betaParam)) = 2
  /\ \E J \in JVals, pv \in [1..N -> PVals] :
       /\ ExchangeInto(1, MForm, J, Beta(betaParam), pv) # 0
       /\ ExchangeInto(2, MForm, J, Beta(betaParam), pv) # 0
       /\ ExchangeInto(3, MForm, J, Beta(betaParam), pv) # 0

\* C7: the solid residual handed to the solver has a traction term for every
\* pair passed to any add_solid_neumann_conditions call.
C7_NeumannAdditive ==
  (pc = "outer") =>
    /\ \A k \in DOMAIN allPairs :
         Count(allPairs[k], sprob.F.tractions) >= Count(allPairs[k], allPairs)
    /\ sprob.J = Derivative(sprob.F)

\* C8: mf_n and Us_n change only in the step that leaves the inner loop and
\* yields; at a yield they equal mf and Us (the yielded fields), and during the
\* inner iterations they are the fields of the previous emission (the initial
\* fields in the first timestep).
C8_PreviousCommittedOnce ==
  /\ [](pc = "yielded" => mf_n = mf /\ Us_n = Us /\ yielded[1] = mf_n /\ yielded[4] = Us_n)
  /\ [][ (mf_n' # mf_n \/ Us_n' # Us_n) => (pc = "inner" /\ pc' = "yielded") ]_vars
  /\ [](InInnerLoop => mf_n = lastOut[1] /\ Us_n = lastOut[2])

C8_Witness ==
  pc = "inner" /\ Len(emitted) = 1 /\ iter = 1 /\ mf # mf_n /\ Us # Us_n

\* C9: the attribute t of a condition changes only in the step that enters an
\* outer timestep; during the inner iterations and in every yield step each
\* condition registered with time=True has t equal to the simulation time (the
\* yielded time), and a condition never registered with time=True is never written.
C9_ConditionsAdvanced ==
  /\ [](InInnerLoop => \A c \in CondIds : InSeq(c, tconditions) => con_t[c] = t)
  /\ [](\A c \in CondIds : ~InSeq(c, tconditions) => con_t[c] = NoTime)
  /\ [][ (pc = "inner" /\ pc' = "yielded") =>
           \A c \in CondIds : InSeq(c, tconditions') => con_t'[c] = yielded'[5] ]_vars
  /\ [][ (con_t' # con_t) => (pc = "outer" /\ pc' = "inner") ]_vars

C9_Witness ==
  /\ pc = "yielded" /\ t = 1 /\ iter = 1 /\ tf = 3
  /\ InSeq(1, tconditions) /\ con_t[1] = 1
  /\ ~InSeq(2, tconditions) /\ \E k \in DOMAIN sbcs : sbcs[k].value = 2

\* C10: every yielded element was preceded in its timestep by at least one and
\* at most maxiter inner iterations.
C10_AtLeastOneIteration ==
  (pc = "yielded") => (iter >= 1 /\ iter <= maxiter)
====
